---- MODULE Spec2Model ----
(***************************************************************************)
(* Model of sysdig-runtime-scanner/get-runtime-scan-workload-results.py:   *)
(* one batch run that pages through the runtime-results list endpoint,     *)
(* filters the results with vulnerabilities, fetches one scan document per *)
(* result id, flattens the documents into report rows and writes a csv.    *)
(*                                                                         *)
(* JSON objects are functions from keys to values; a key that is absent    *)
(* from the JSON is absent from the function's DOMAIN.  All scalar values  *)
(* are strings, except the vulnerability totals, which are numbers.        *)
(***************************************************************************)
EXTENDS Integers, Sequences, FiniteSets, TLC

VARIABLES
    pc,             \* where the program is: "main", "list", "detail", "done",
                    \* "exited"; for the flattener alone: "gather", "gathered", "raised"
    exit_status,    \* status the process exits with (-1 while it runs)
    file_exists,    \* os.path.isfile(csv_file_name)
    file_rows,      \* rows held by the csv file
    file_before,    \* the csv file as it was before the run
    cursor,         \* _get_runtime_workload_scan_results_list: cursor
    json_response,  \* _get_runtime_workload_scan_results_list: json_response
    all_data,       \* the "data" of every page fetched so far, in order
    calls,          \* urls _get_data_from_http_request was invoked with
    n_returns,      \* number of returns of _get_data_from_http_request
    url,            \* _get_data_from_http_request: url of the last invocation
    http_log,       \* requests sent and responses received by that invocation
    response_data,  \* _get_data_from_http_request: response_data
    returned,       \* the last return of _get_data_from_http_request
    scan_results_list,  \* main: the value the paginator returned
    scan_results_list_with_vulns,
    images_with_vulns_scan_results,
    fetch_pos,      \* _get_images_with_vulns_scan_results: position of the loop
    report_data,    \* value returned by _gather_report_data
    row_src         \* for every row of report_data: <<result, package, vuln>> positions

vars == <<pc, exit_status, file_exists, file_rows, file_before, cursor,
          json_response, all_data, calls, n_returns, url, http_log,
          response_data, returned, scan_results_list,
          scan_results_list_with_vulns,
          images_with_vulns_scan_results, fetch_pos, report_data, row_src>>

---------------------------------------------------------------------------
(* Bounds of the model *)

MaxPages == 2       \* pages the list endpoint serves
MaxPageLen == 2     \* results in one page
MaxRetries == 2     \* 429 responses to one invocation
MaxPkgs == 2        \* packages in one scan document
MaxVulns == 2       \* vulnerabilities in one package

SeqsUpTo(S, n) == UNION {[1..k -> S] : k \in 0..n}

---------------------------------------------------------------------------
(* Python helpers *)

NoneVal == "<None>"
NoneObj == [None |-> "None"]
NoResponse == <<"none", "">>

\* dict.get(k, dflt)
Get(d, k, dflt) == IF k \in DOMAIN d THEN d[k] ELSE dflt

\* the body of a response is text; json.loads turns a JSON text into its value
JsonText(value) == <<"json", value>>
json_loads(text) == text[2]

ThrottleBody == <<"text", "Too Many Requests">>
ErrorBody == <<"text", "error">>

\* the status a process that raised SystemExit(code) exits with
ExitStatus(code) == code % 256

---------------------------------------------------------------------------
(* Inputs: what the API can answer *)

ResultIds == {"r1", "r2"}

Sev(c, h, l, m, n) ==
    [critical |-> c, high |-> h, low |-> l, medium |-> m, negligible |-> n]

SevSet == {Sev(0, 0, 0, 0, 0), Sev(0, 0, 0, 0, 1)}

ScopeA == ("kubernetes.cluster.name" :> "cluster1")
       @@ ("kubernetes.namespace.name" :> "ns1")
       @@ ("kubernetes.pod.container.name" :> "ctr")
       @@ ("kubernetes.workload.name" :> "web")
       @@ ("kubernetes.workload.type" :> "deployment")

ScanResult(id, sev) ==
    [resultId |-> id, scope |-> ScopeA, vulnTotalBySeverity |-> sev]

ResultSet == {ScanResult(id, sev) : id \in ResultIds, sev \in SevSet}

FullVuln ==
    [name |-> "CVE-2024-0001",
     severity |-> [value |-> "high", sourceName |-> "nvd"],
     cvssScore |-> [value |-> [version |-> "3.1", score |-> "7.5", vector |-> "AV:N"],
                    sourceName |-> "nvd"],
     disclosureDate |-> "2024-01-01",
     solutionDate |-> "2024-02-01",
     exploitable |-> "False",
     fixedInVersion |-> "7.1"]

\* every optional field absent at the top level
BareVuln ==
    [name |-> "CVE-2024-0002", disclosureDate |-> "2024-01-02", exploitable |-> "True"]

\* cvssScore present, its "value" absent
NoCvssValueVuln ==
    [name |-> "CVE-2024-0003",
     severity |-> [value |-> "low", sourceName |-> "nvd"],
     cvssScore |-> [sourceName |-> "nvd"],
     disclosureDate |-> "2024-01-03",
     exploitable |-> "False"]

\* cvssScore.value present, its "score" absent
NoScoreVuln ==
    [name |-> "CVE-2024-0004",
     severity |-> [value |-> "low", sourceName |-> "nvd"],
     cvssScore |-> [value |-> [version |-> "3.1", vector |-> "AV:L"],
                    sourceName |-> "nvd"],
     disclosureDate |-> "2024-01-04",
     exploitable |-> "False"]

\* severity present, its "value" absent
NoSeverityValueVuln ==
    [name |-> "CVE-2024-0005",
     severity |-> [sourceName |-> "nvd"],
     disclosureDate |-> "2024-01-05",
     exploitable |-> "False"]

VulnVariants ==
    {FullVuln, BareVuln, NoCvssValueVuln, NoScoreVuln, NoSeverityValueVuln}

FullPkg(vs) ==
    [type |-> "os", name |-> "curl", version |-> "7.0", path |-> "/usr/bin/curl",
     suggestedFix |-> "7.1", inUse |-> "True", vulns |-> vs]

\* every optional field of the package absent
BarePkg(vs) == [vulns |-> vs]

\* a package without a "vulns" key
NoVulnsPkg ==
    [type |-> "os", name |-> "bash", version |-> "5.0", path |-> "/bin/bash",
     inUse |-> "False"]

Meta(ps) == [pullString |-> ps, imageId |-> "sha256:1", baseOs |-> "debian"]
MetaNoPull == [imageId |-> "sha256:2", baseOs |-> "alpine"]

Doc(md, pkgs) == [result |-> [metadata |-> md, packages |-> pkgs]]
DocNoPackages(md) == [result |-> [metadata |-> md]]

\* documents that vary in the number of packages and vulnerabilities
CountPkgs == {NoVulnsPkg} \cup {FullPkg(vs) : vs \in SeqsUpTo({FullVuln}, MaxVulns)}
CountDocs == {Doc(Meta("img:1"), ps) : ps \in SeqsUpTo(CountPkgs, MaxPkgs)}

\* documents that vary in the fields that are present
FieldPkgs == {FullPkg(<<v>>) : v \in VulnVariants} \cup {BarePkg(<<v>>) : v \in VulnVariants}
FieldDocs == {Doc(md, <<p>>) : md \in {Meta("img:1"), Meta(""), MetaNoPull}, p \in FieldPkgs}
             \cup {DocNoPackages(Meta("img:1"))}

DocSet == CountDocs \cup FieldDocs

\* the documents the detail endpoint serves in a whole run
MainDocs ==
    {Doc(Meta("img:1"), <<FullPkg(<<FullVuln>>)>>),
     Doc(Meta(""), <<FullPkg(<<FullVuln>>)>>),
     Doc(Meta("img:1"), <<NoVulnsPkg, FullPkg(<<FullVuln, BareVuln>>)>>),
     Doc(Meta("img:1"), <<FullPkg(<<NoScoreVuln>>)>>)}

\* the results of a page: of any page the paginator returns, and of a page
\* that names a next cursor, whose results the paginator does not read
PageData == SeqsUpTo(ResultSet, MaxPageLen)
EarlyPageData ==
    {<<>>, <<ScanResult("r1", Sev(0, 0, 0, 0, 1))>>, <<ScanResult("r2", Sev(0, 0, 0, 0, 0))>>}

PageCursor(n) == IF n = 1 THEN "c1" ELSE IF n = 2 THEN "c2" ELSE "c3"

ListPage(data, more, n) ==
    [data |-> data,
     page |-> IF more THEN [returned |-> "n", next |-> PageCursor(n)]
                      ELSE [returned |-> "n"]]

OtherStatuses == {404, 500}

---------------------------------------------------------------------------
(* _gather_report_data *)

report_headers ==
    <<"Vulnerability ID", "Severity", "Package name", "Package version",
      "Package type", "Package path", "Image", "OS Name", "CVSS version",
      "CVSS score", "CVSS vector", "Vuln link", "Vuln Publish date",
      "Vuln Fix date", "Fix version", "Public Exploit", "K8S cluster name",
      "K8S namespace name", "K8S workload type", "K8S workload name",
      "K8S container name", "Image ID", "K8S POD count",
      "Package suggested fix", "In use", "Risk accepted">>

SeverityDefault == [value |-> "", sourceName |-> ""]
CvssValueDefault == [version |-> "", score |-> "", vector |-> ""]
CvssDefault == [value |-> CvssValueDefault, sourceName |-> ""]

\* the subscripts of the vuln loop that raise KeyError
VulnKeyError(vuln) ==
    LET vuln_severity == Get(vuln, "severity", SeverityDefault)
        vuln_cvss_score == Get(vuln, "cvssScore", CvssDefault)
        vuln_cvss_score_value == Get(vuln_cvss_score, "value", CvssValueDefault)
    IN  \/ "value" \notin DOMAIN vuln_severity
        \/ "sourceName" \notin DOMAIN vuln_severity
        \/ "version" \notin DOMAIN vuln_cvss_score_value
        \/ "score" \notin DOMAIN vuln_cvss_score_value
        \/ "vector" \notin DOMAIN vuln_cvss_score_value
        \/ "sourceName" \notin DOMAIN vuln_cvss_score
        \/ "disclosureDate" \notin DOMAIN vuln
        \/ "exploitable" \notin DOMAIN vuln

ReportRow(result, doc, package, vuln) ==
    LET metadata == doc["result"]["metadata"]
        image_pull_string == Get(metadata, "pullString", NoneVal)
        vuln_severity == Get(vuln, "severity", SeverityDefault)
        vuln_cvss_score == Get(vuln, "cvssScore", CvssDefault)
        vuln_cvss_score_value == Get(vuln_cvss_score, "value", CvssValueDefault)
    IN  << Get(vuln, "name", ""),
           vuln_severity["value"],
           Get(package, "name", ""),
           Get(package, "version", ""),
           Get(package, "type", ""),
           Get(package, "path", ""),
           image_pull_string,
           metadata["baseOs"],
           vuln_cvss_score_value["version"],
           vuln_cvss_score_value["score"],
           vuln_cvss_score_value["vector"],
           "TODO",
           vuln["disclosureDate"],
           Get(vuln, "solutionDate", ""),
           Get(vuln, "fixedInVersion", ""),
           vuln["exploitable"],
           result["scope"]["kubernetes.cluster.name"],
           result["scope"]["kubernetes.namespace.name"],
           result["scope"]["kubernetes.workload.name"],
           result["scope"]["kubernetes.workload.type"],
           result["scope"]["kubernetes.pod.container.name"],
           metadata["imageId"],
           "TODO",
           Get(package, "suggestedFix", ""),
           Get(package, "inUse", ""),
           "TODO" >>

\* outcome of a loop: the rows appended, their origins, or an exception
Rows(rows, src) == [raised |-> FALSE, rows |-> rows, src |-> src]
Raised == [raised |-> TRUE, rows |-> <<>>, src |-> <<>>]
Then(a, b) == IF a.raised \/ b.raised THEN Raised
              ELSE Rows(a.rows \o b.rows, a.src \o b.src)

\* a package is skipped when package.get("vulns") is None
PackageSkipped(package) == "vulns" \notin DOMAIN package

\* variant: "if not image_pull_string", true of None as well
ResultSkipped_Falsy(image_pull_string) == image_pull_string \in {"", NoneVal}

\* a result is skipped when its pull string is blank
ResultSkipped(image_pull_string) == image_pull_string = ""

RECURSIVE VulnLoop(_, _, _, _, _, _)
VulnLoop(result, doc, package, k, p, v) ==
    LET vulns == Get(package, "vulns", <<>>) IN
    IF v > Len(vulns) THEN Rows(<<>>, <<>>)
    ELSE IF VulnKeyError(vulns[v]) THEN Raised
    ELSE Then(Rows(<<ReportRow(result, doc, package, vulns[v])>>, <<(<<k, p, v>>)>>),
              VulnLoop(result, doc, package, k, p, v + 1))

RECURSIVE PackageLoop(_, _, _, _)
PackageLoop(result, doc, k, p) ==
    LET packages == Get(doc["result"], "packages", <<>>) IN
    IF p > Len(packages) THEN Rows(<<>>, <<>>)
    ELSE IF PackageSkipped(packages[p]) THEN PackageLoop(result, doc, k, p + 1)
    ELSE Then(VulnLoop(result, doc, packages[p], k, p, 1),
              PackageLoop(result, doc, k, p + 1))

RECURSIVE ResultLoop(_, _, _)
ResultLoop(kept, images, k) ==
    IF k > Len(kept) THEN Rows(<<>>, <<>>)
    ELSE LET result == kept[k]
             doc == images[result["resultId"]]
             image_pull_string == Get(doc["result"]["metadata"], "pullString", NoneVal)
         IN  IF ResultSkipped(image_pull_string) THEN ResultLoop(kept, images, k + 1)
             ELSE Then(PackageLoop(result, doc, k, 1), ResultLoop(kept, images, k + 1))

\* the header row is appended to the local list "report", whereas the list
\* returned is "report_data"
gather_report_data(kept, images) == ResultLoop(kept, images, 1)

---------------------------------------------------------------------------
(* _get_scan_results_list_with_vulnerabilties *)

TotalVulns(result) ==
    result["vulnTotalBySeverity"]["critical"]
    + result["vulnTotalBySeverity"]["high"]
    + result["vulnTotalBySeverity"]["low"]
    + result["vulnTotalBySeverity"]["medium"]
    + result["vulnTotalBySeverity"]["negligible"]

\* variant: ">=" in place of ">"
HasVulns_NonNegative(total_vulns) == total_vulns >= 0

HasVulns(total_vulns) == total_vulns > 0

get_scan_results_list_with_vulnerabilties(list) ==
    SelectSeq(list["data"], LAMBDA result : HasVulns(TotalVulns(result)))

---------------------------------------------------------------------------
(* _get_data_from_http_request *)

ListUrl(c) == <<"secure/vulnerability/v1beta1/runtime-results", c>>
DetailUrl(resultId) == <<"secure/vulnerability/v1beta1/results", resultId>>

Statuses == {200, 429} \cup OtherStatuses

\* variant: the loop without its 429 branch
HttpOutcome_NoRetry(status) ==
    IF status = 200 THEN "break" ELSE "raise"

\* what the loop does with a response status
HttpOutcome(status) ==
    IF status = 200 THEN "break"
    ELSE IF status = 429 THEN "retry"
    ELSE "raise"

\* "raise SystemExit()" of the function, "raise SystemExit(-1)" of main
HttpFailureExitCode == 0
MainFailureExitCode == -1

Throttles(log) == Cardinality({i \in 1..Len(log) : log[i].status = 429})

Exchange(status, body) == [url |-> url, status |-> status, body |-> body]

\* the function is called with url u
Invoke(u) ==
    /\ calls' = Append(calls, u)
    /\ url' = u
    /\ http_log' = <<>>

\* a 200 response with this body ends the loop and the function returns
Return(body) ==
    /\ HttpOutcome(200) = "break"
    /\ response_data' = body
    /\ returned' = [url |-> url, log |-> Append(http_log, Exchange(200, body)),
                    data |-> body]
    /\ n_returns' = n_returns + 1

\* a 429 response: sleep 60 seconds and send the request again
HttpThrottled ==
    /\ pc \in {"list", "detail"}
    /\ Throttles(http_log) < MaxRetries
    /\ \E status \in Statuses :
          /\ HttpOutcome(status) = "retry"
          /\ http_log' = Append(http_log, Exchange(status, ThrottleBody))
    /\ response_data' = ThrottleBody
    /\ UNCHANGED <<pc, exit_status, file_exists, file_rows, file_before, cursor,
                   json_response, all_data, calls, n_returns, url, returned,
                   scan_results_list, scan_results_list_with_vulns,
                   images_with_vulns_scan_results, fetch_pos, report_data, row_src>>

\* any other status: UnexpectedHTTPResponse is raised and caught by the
\* function, which raises SystemExit(); main does not catch SystemExit
HttpUnexpected ==
    /\ pc \in {"list", "detail"}
    /\ \E status \in Statuses :
          /\ HttpOutcome(status) = "raise"
          /\ http_log' = Append(http_log, Exchange(status, ErrorBody))
    /\ response_data' = ErrorBody
    /\ pc' = "exited"
    /\ exit_status' = ExitStatus(HttpFailureExitCode)
    /\ UNCHANGED <<file_exists, file_rows, file_before, cursor,
                   json_response, all_data, calls, n_returns, url, returned,
                   scan_results_list, scan_results_list_with_vulns,
                   images_with_vulns_scan_results, fetch_pos, report_data, row_src>>

---------------------------------------------------------------------------
(* csv.writer(...).writerows(report_data) *)

\* the writer writes None as the empty string
CsvField(value) == IF value = NoneVal THEN "" ELSE value

CsvRows(rows) ==
    [i \in 1..Len(rows) |-> [j \in 1..Len(rows[i]) |-> CsvField(rows[i][j])]]

\* content of an output file that exists before the run
OldRows == << <<"old">> >>

---------------------------------------------------------------------------
(* main, from the paginator's return to the end *)

\* _gather_report_data, then open(csv_file_name, 'w') and writerows; an
\* exception is caught by main, which raises SystemExit(-1)
Finish(kept, images) ==
    LET gathered == gather_report_data(kept, images) IN
    IF gathered.raised
    THEN /\ pc' = "exited"
         /\ exit_status' = ExitStatus(MainFailureExitCode)
         /\ UNCHANGED <<file_exists, file_rows, report_data, row_src>>
    ELSE /\ pc' = "done"
         /\ exit_status' = 0
         /\ report_data' = gathered.rows
         /\ row_src' = gathered.src
         /\ file_exists' = TRUE
         /\ file_rows' = CsvRows(gathered.rows)

\* variant: the loop without its "not in" test
AlreadyFetched_Never(resultId, images) == FALSE

\* "resultId not in images_with_vulns_scan_results.keys()" is false
AlreadyFetched(resultId, images) == resultId \in DOMAIN images

\* the position of the next result the loop of the detail fetcher requests
RECURSIVE NextFetch(_, _, _)
NextFetch(kept, images, i) ==
    IF i > Len(kept) THEN i
    ELSE IF AlreadyFetched(kept[i]["resultId"], images)
         THEN NextFetch(kept, images, i + 1)
         ELSE i

\* _get_images_with_vulns_scan_results from position "from" of its loop, up
\* to its next request or, after its return, the rest of main
Fetch(kept, images, from, log) ==
    LET i == NextFetch(kept, images, from) IN
    /\ fetch_pos' = i
    /\ images_with_vulns_scan_results' = images
    /\ IF i <= Len(kept)
       THEN /\ pc' = "detail"
            /\ Invoke(DetailUrl(kept[i]["resultId"]))
            /\ UNCHANGED <<exit_status, file_exists, file_rows, report_data, row_src>>
       ELSE /\ http_log' = log
            /\ UNCHANGED <<calls, url>>
            /\ Finish(kept, images)

NoImages == [id \in {} |-> NoneObj]

Store(images, resultId, doc) ==
    [id \in DOMAIN images \cup {resultId} |-> IF id = resultId THEN doc ELSE images[id]]

\* main once the paginator has returned list
AfterList(list, log) ==
    /\ scan_results_list' = list
    /\ IF Len(list["data"]) = 0
       THEN /\ pc' = "done"
            /\ exit_status' = 0
            /\ http_log' = log
            /\ UNCHANGED <<file_exists, file_rows, calls, url,
                           scan_results_list_with_vulns,
                           images_with_vulns_scan_results, fetch_pos,
                           report_data, row_src>>
       ELSE LET kept == get_scan_results_list_with_vulnerabilties(list) IN
            /\ scan_results_list_with_vulns' = kept
            /\ Fetch(kept, NoImages, 1, log)

---------------------------------------------------------------------------
(* main, up to the first request *)

\* variant: os.path.isdir in place of os.path.isfile, false of a csv file
IsFile_IsDir(exists) == FALSE

IsFile(exists) == exists

\* the output file exists: raise SystemExit(-1)
RefuseExistingFile ==
    /\ pc = "main"
    /\ IsFile(file_exists)
    /\ pc' = "exited"
    /\ exit_status' = ExitStatus(MainFailureExitCode)
    /\ UNCHANGED <<file_exists, file_rows, file_before, cursor, json_response,
                   all_data, calls, n_returns, url, http_log, response_data,
                   returned, scan_results_list, scan_results_list_with_vulns,
                   images_with_vulns_scan_results, fetch_pos, report_data, row_src>>

\* the paginator is called and sends its first request with an empty cursor
StartRun ==
    /\ pc = "main"
    /\ ~IsFile(file_exists)
    /\ pc' = "list"
    /\ cursor' = ""
    /\ Invoke(ListUrl(""))
    /\ UNCHANGED <<exit_status, file_exists, file_rows, file_before, json_response,
                   all_data, n_returns, response_data, returned,
                   scan_results_list, scan_results_list_with_vulns,
                   images_with_vulns_scan_results, fetch_pos, report_data, row_src>>

---------------------------------------------------------------------------
(* _get_runtime_workload_scan_results_list *)

ListCalls == Len(calls)

HasNext(response) == "next" \in DOMAIN response["page"]

\* a page that names a next cursor: the loop requests the next page
ListPageMore ==
    /\ pc = "list"
    /\ ListCalls < MaxPages
    /\ \E data \in EarlyPageData :
          /\ Return(JsonText(ListPage(data, TRUE, ListCalls)))
          /\ all_data' = all_data \o data
    /\ json_response' = json_loads(response_data')
    /\ HasNext(json_response')
    /\ cursor' = json_response'["page"]["next"]
    /\ Invoke(ListUrl(cursor'))
    /\ UNCHANGED <<pc, exit_status, file_exists, file_rows, file_before,
                   scan_results_list, scan_results_list_with_vulns,
                   images_with_vulns_scan_results, fetch_pos, report_data, row_src>>

\* a page without a next cursor: the loop ends, the paginator returns
\* json_response and main goes on
ListPageLast ==
    /\ pc = "list"
    /\ \E data \in PageData :
          /\ Return(JsonText(ListPage(data, FALSE, ListCalls)))
          /\ all_data' = all_data \o data
    /\ json_response' = json_loads(response_data')
    /\ ~HasNext(json_response')
    /\ AfterList(json_response', returned'.log)
    /\ UNCHANGED <<file_before, cursor>>

---------------------------------------------------------------------------
(* _get_images_with_vulns_scan_results *)

\* the document of the result at fetch_pos arrives and is stored; the loop
\* goes on
DetailResponse ==
    /\ pc = "detail"
    /\ \E doc \in MainDocs : Return(JsonText(doc))
    /\ Fetch(scan_results_list_with_vulns,
             Store(images_with_vulns_scan_results,
                   scan_results_list_with_vulns[fetch_pos]["resultId"],
                   json_loads(response_data')),
             fetch_pos + 1, returned'.log)
    /\ UNCHANGED <<file_before, cursor, json_response, all_data,
                   scan_results_list, scan_results_list_with_vulns>>

---------------------------------------------------------------------------
(* The run *)

Init ==
    /\ pc = "main"
    /\ exit_status = -1
    /\ file_exists \in BOOLEAN
    /\ file_rows = IF file_exists THEN OldRows ELSE <<>>
    /\ file_before = [exists |-> file_exists, rows |-> file_rows]
    /\ cursor = ""
    /\ json_response = NoneObj
    /\ all_data = <<>>
    /\ calls = <<>>
    /\ n_returns = 0
    /\ url = <<"", "">>
    /\ http_log = <<>>
    /\ response_data = NoResponse
    /\ returned = [url |-> <<"", "">>, log |-> <<>>, data |-> NoResponse]
    /\ scan_results_list = NoneObj
    /\ scan_results_list_with_vulns = <<>>
    /\ images_with_vulns_scan_results = NoImages
    /\ fetch_pos = 0
    /\ report_data = <<>>
    /\ row_src = <<>>

Next ==
    \/ RefuseExistingFile
    \/ StartRun
    \/ HttpThrottled
    \/ HttpUnexpected
    \/ ListPageMore
    \/ ListPageLast
    \/ DetailResponse

Spec == Init /\ [][Next]_vars

---------------------------------------------------------------------------
(* _gather_report_data applied to bounded inputs *)

KeptResults == {r \in ResultSet : HasVulns(TotalVulns(r))}

\* the kept lists handed to the flattener: none, one or two results
KeptLists ==
    {<<>>} \cup {<<a>> : a \in KeptResults}
           \cup {<<a, b>> : a \in KeptResults, b \in KeptResults}

IdsOf(kept) == {kept[i]["resultId"] : i \in 1..Len(kept)}

InitFlatten ==
    /\ pc = "gather"
    /\ exit_status = -1
    /\ file_exists = FALSE
    /\ file_rows = <<>>
    /\ file_before = [exists |-> FALSE, rows |-> <<>>]
    /\ cursor = ""
    /\ json_response = NoneObj
    /\ all_data = <<>>
    /\ calls = <<>>
    /\ n_returns = 0
    /\ url = <<"", "">>
    /\ http_log = <<>>
    /\ response_data = NoResponse
    /\ returned = [url |-> <<"", "">>, log |-> <<>>, data |-> NoResponse]
    /\ scan_results_list = NoneObj
    /\ scan_results_list_with_vulns \in KeptLists
    /\ images_with_vulns_scan_results \in [IdsOf(scan_results_list_with_vulns) -> DocSet]
    /\ fetch_pos = Len(scan_results_list_with_vulns) + 1
    /\ report_data = <<>>
    /\ row_src = <<>>

GatherReturns ==
    /\ pc = "gather"
    /\ LET gathered == gather_report_data(scan_results_list_with_vulns,
                                          images_with_vulns_scan_results)
       IN  /\ ~gathered.raised
           /\ report_data' = gathered.rows
           /\ row_src' = gathered.src
    /\ pc' = "gathered"
    /\ UNCHANGED <<exit_status, file_exists, file_rows, file_before, cursor,
                   json_response, all_data, calls, n_returns, url, http_log,
                   response_data, returned, scan_results_list,
                   scan_results_list_with_vulns,
                   images_with_vulns_scan_results, fetch_pos>>

GatherRaises ==
    /\ pc = "gather"
    /\ gather_report_data(scan_results_list_with_vulns,
                          images_with_vulns_scan_results).raised
    /\ pc' = "raised"
    /\ UNCHANGED <<exit_status, file_exists, file_rows, file_before, cursor,
                   json_response, all_data, calls, n_returns, url, http_log,
                   response_data, returned, scan_results_list,
                   scan_results_list_with_vulns,
                   images_with_vulns_scan_results, fetch_pos, report_data, row_src>>

NextFlatten == GatherReturns \/ GatherRaises

SpecFlatten == InitFlatten /\ [][NextFlatten]_vars

---------------------------------------------------------------------------
(* Properties *)

Last(seq) == seq[Len(seq)]

\* the result, package and vulnerability row j of report_data was built from
SrcResult(j) == scan_results_list_with_vulns[row_src[j][1]]
SrcDoc(j) == images_with_vulns_scan_results[SrcResult(j)["resultId"]]
SrcPackage(j) == SrcDoc(j)["result"]["packages"][row_src[j][2]]
SrcVuln(j) == SrcPackage(j)["vulns"][row_src[j][3]]

\* number of rows of report_data built from the k-th kept result
RowCount(k) == Cardinality({j \in 1..Len(row_src) : row_src[j][1] = k})

\* sum of the five severity buckets of a result
BucketSum(result) ==
    LET totals == result["vulnTotalBySeverity"] IN
    totals["critical"] + totals["high"] + totals["low"] + totals["medium"]
    + totals["negligible"]

\* sum, over the packages of a document with at least one vulnerability, of
\* the package's number of vulnerabilities
RECURSIVE VulnsFrom(_, _)
VulnsFrom(packages, p) ==
    IF p > Len(packages) THEN 0
    ELSE (IF "vulns" \in DOMAIN packages[p] THEN Len(packages[p]["vulns"]) ELSE 0)
         + VulnsFrom(packages, p + 1)

ExpectedRows(doc) ==
    IF "packages" \in DOMAIN doc["result"]
    THEN VulnsFrom(doc["result"]["packages"], 1)
    ELSE 0

PullString(doc) == Get(doc["result"]["metadata"], "pullString", NoneVal)

\* the value of the field a header column names, "" when the field is absent
\* at any level
FieldNamed(column, result, doc, package, vuln) ==
    LET metadata == doc["result"]["metadata"]
        severity == Get(vuln, "severity", SeverityDefault)
        cvss == Get(Get(vuln, "cvssScore", CvssDefault), "value", CvssValueDefault)
    IN  CASE column = "Vulnerability ID" -> Get(vuln, "name", "")
          [] column = "Severity" -> Get(severity, "value", "")
          [] column = "Package name" -> Get(package, "name", "")
          [] column = "Package version" -> Get(package, "version", "")
          [] column = "Package type" -> Get(package, "type", "")
          [] column = "Package path" -> Get(package, "path", "")
          [] column = "Image" -> Get(metadata, "pullString", NoneVal)
          [] column = "OS Name" -> metadata["baseOs"]
          [] column = "CVSS version" -> Get(cvss, "version", "")
          [] column = "CVSS score" -> Get(cvss, "score", "")
          [] column = "CVSS vector" -> Get(cvss, "vector", "")
          [] column = "Vuln link" -> "TODO"
          [] column = "Vuln Publish date" -> vuln["disclosureDate"]
          [] column = "Vuln Fix date" -> Get(vuln, "solutionDate", "")
          [] column = "Fix version" -> Get(vuln, "fixedInVersion", "")
          [] column = "Public Exploit" -> vuln["exploitable"]
          [] column = "K8S cluster name" -> result["scope"]["kubernetes.cluster.name"]
          [] column = "K8S namespace name" -> result["scope"]["kubernetes.namespace.name"]
          [] column = "K8S workload type" -> result["scope"]["kubernetes.workload.type"]
          [] column = "K8S workload name" -> result["scope"]["kubernetes.workload.name"]
          [] column = "K8S container name" -> result["scope"]["kubernetes.pod.container.name"]
          [] column = "Image ID" -> metadata["imageId"]
          [] column = "K8S POD count" -> "TODO"
          [] column = "Package suggested fix" -> Get(package, "suggestedFix", "")
          [] column = "In use" -> Get(package, "inUse", "")
          [] column = "Risk accepted" -> "TODO"

\* the columns of the optional fields: severity, package name, version, type
\* and path, CVSS score and vector, solution date, fixed-in version,
\* suggested fix, in-use
OptionalColumns ==
    {"Severity", "Package name", "Package version", "Package type",
     "Package path", "CVSS score", "CVSS vector", "Vuln Fix date",
     "Fix version", "Package suggested fix", "In use"}

\* ids of a list of results, each once, in the order of first appearance
RECURSIVE FirstIds(_, _, _)
FirstIds(results, i, seen) ==
    IF i > Len(results) THEN <<>>
    ELSE IF results[i]["resultId"] \in seen
         THEN FirstIds(results, i + 1, seen)
         ELSE <<results[i]["resultId"]>>
              \o FirstIds(results, i + 1, seen \cup {results[i]["resultId"]})

\* ids the detail endpoint was called with, in the order of the calls
DetailCalls ==
    LET detail == SelectSeq(calls, LAMBDA u : u[1] = DetailUrl("")[1])
    IN  [i \in 1..Len(detail) |-> detail[i][2]]

FetcherReturned == fetch_pos = Len(scan_results_list_with_vulns) + 1

\* C1: the result set the paginator returns holds the scan results of all
\* the pages it fetched, in order, not only those of the last page.
C1_AllPagesAccumulated ==
    scan_results_list # NoneObj => scan_results_list["data"] = all_data

\* C2: after a run that completes, the csv file exists and holds the header
\* row of 26 columns followed by the report rows in the flattener's order;
\* with no row it holds the header row alone.
C2_HeaderThenRows ==
    pc = "done" =>
        /\ file_exists
        /\ Len(report_headers) = 26
        /\ file_rows = <<report_headers>> \o CsvRows(report_data)

\* C3: a response status other than 200 and 429 ends the run at once, with a
\* non-zero exit status.
C3_UnexpectedStatusExitsNonZero ==
    (Len(http_log) > 0 /\ Last(http_log).status \notin {200, 429}) =>
        (pc = "exited" /\ exit_status # 0)

\* C4: when the output file exists at start-up the program exits with a
\* non-zero status, sends no request and leaves the file as it was.
C4_ExistingFileRefused ==
    file_before.exists =>
        /\ calls = <<>>
        /\ Len(http_log) = 0
        /\ file_exists
        /\ file_rows = file_before.rows
        /\ pc \in {"main", "exited"}
        /\ (pc = "exited" => exit_status # 0)

C4_Witness == file_before.exists /\ pc = "exited" /\ exit_status = 255

\* C5: an invocation of the HTTP retrieval answered by k responses 429 and
\* then a 200 requests the same url k + 1 times, returns once, returns the
\* body of the 200 response, and no 429 ends it or reaches the caller.
C5_RetryUntilOk ==
    /\ \A i \in 1..Len(http_log) : http_log[i].url = url
    /\ (pc \in {"list", "detail"} =>
            \A i \in 1..Len(http_log) : http_log[i].status = 429)
    /\ (Len(http_log) > 0 /\ Last(http_log).status = 429 => pc \in {"list", "detail"})
    /\ (Len(returned.log) > 0 =>
            LET n == Len(returned.log) IN
            /\ returned.log[n].status = 200
            /\ \A i \in 1..(n - 1) : returned.log[i].status = 429
            /\ \A i \in 1..n : returned.log[i].url = returned.url
            /\ returned.data = returned.log[n].body
            /\ returned.data # ThrottleBody)
    /\ n_returns <= Len(calls)
    /\ Len(calls) <= n_returns + 1
    /\ (pc = "done" => n_returns = Len(calls))

C5_Witness ==
    /\ Len(returned.log) >= 3
    /\ returned.log[1].status = 429
    /\ returned.log[2].status = 429
    /\ n_returns >= 2

\* C6 as stated: for a result of the list whose severity buckets sum to 0, no
\* row is built from the document of that result's id, whatever the list.
C6_NoRowForZeroSumId ==
    pc = "done" =>
        \A i \in 1..Len(scan_results_list["data"]) :
            BucketSum(scan_results_list["data"][i]) = 0 =>
                \A j \in 1..Len(row_src) :
                    SrcResult(j)["resultId"] # scan_results_list["data"][i]["resultId"]

\* C6 amended: every row is built from an entry of the list whose severity
\* buckets sum to more than 0; an id all of whose entries sum to 0 has no row.
C6_RowsOnlyFromPositiveSum ==
    /\ Len(row_src) = Len(report_data)
    /\ \A j \in 1..Len(row_src) :
          /\ BucketSum(SrcResult(j)) > 0
          /\ \E i \in 1..Len(scan_results_list["data"]) :
                scan_results_list["data"][i] = SrcResult(j)
    /\ (pc = "done" =>
          \A id \in ResultIds :
              (\A i \in 1..Len(scan_results_list["data"]) :
                    scan_results_list["data"][i]["resultId"] = id =>
                        BucketSum(scan_results_list["data"][i]) = 0)
              => \A j \in 1..Len(row_src) : SrcResult(j)["resultId"] # id)

C6_Witness ==
    /\ pc = "done"
    /\ Len(report_data) > 0
    /\ \E i \in 1..Len(scan_results_list["data"]) :
          /\ BucketSum(scan_results_list["data"][i]) = 0
          /\ \A j \in 1..Len(row_src) :
                SrcResult(j)["resultId"] # scan_results_list["data"][i]["resultId"]

\* C7 as stated: for every kept result the number of rows equals the sum of
\* the vulnerability counts of its packages.
C7_RowCountEveryKept ==
    pc = "gathered" =>
        \A k \in 1..Len(scan_results_list_with_vulns) :
            RowCount(k) =
                ExpectedRows(images_with_vulns_scan_results[
                                 scan_results_list_with_vulns[k]["resultId"]])

\* C7 amended: when the flattener returns, a kept result whose pull string is
\* not "" has as many rows as its packages have vulnerabilities, and a kept
\* result whose pull string is "" has none.
C7_RowCountUnlessBlankImage ==
    pc = "gathered" =>
        /\ Len(row_src) = Len(report_data)
        /\ \A k \in 1..Len(scan_results_list_with_vulns) :
              LET doc == images_with_vulns_scan_results[
                             scan_results_list_with_vulns[k]["resultId"]]
              IN  RowCount(k) = IF PullString(doc) = "" THEN 0 ELSE ExpectedRows(doc)

C7_Witness ==
    /\ pc = "gathered"
    /\ \E k \in 1..Len(scan_results_list_with_vulns) : RowCount(k) >= 3
    /\ \E k \in 1..Len(scan_results_list_with_vulns) :
          LET doc == images_with_vulns_scan_results[
                         scan_results_list_with_vulns[k]["resultId"]]
          IN  PullString(doc) = "" /\ ExpectedRows(doc) > 0 /\ RowCount(k) = 0

\* C8: the detail fetcher calls the HTTP retrieval at most once for each
\* result id, one call at a time, in the order the ids first appear in the
\* kept list, and when it returns every kept id has a stored document.
C8_OneDetailCallPerId ==
    LET firsts == FirstIds(scan_results_list_with_vulns, 1, {}) IN
    /\ Len(DetailCalls) <= Len(firsts)
    /\ \A i \in 1..Len(DetailCalls) : DetailCalls[i] = firsts[i]
    /\ Len(calls) - n_returns \in {0, 1}
    /\ (pc = "detail" =>
            /\ Len(calls) - n_returns = 1
            /\ DOMAIN images_with_vulns_scan_results
                   = {DetailCalls[i] : i \in 1..(Len(DetailCalls) - 1)})
    /\ (FetcherReturned =>
            /\ DetailCalls = firsts
            /\ DOMAIN images_with_vulns_scan_results
                   = IdsOf(scan_results_list_with_vulns))

C8_Witness ==
    /\ FetcherReturned
    /\ Len(scan_results_list_with_vulns) = 2
    /\ scan_results_list_with_vulns[1]["resultId"]
           = scan_results_list_with_vulns[2]["resultId"]
    /\ Len(DetailCalls) = 1

\* C9: a record that lacks an optional field, at whatever level the field is
\* stored, still gives a row, with "" in the column of that field, and the
\* flattener does not fail.
C9_MissingOptionalFieldsDefault ==
    pc \in {"gathered", "raised"} =>
        /\ pc = "gathered"
        /\ \A j \in 1..Len(report_data) :
              \A i \in 1..Len(report_headers) :
                  report_headers[i] \in OptionalColumns =>
                      report_data[j][i] =
                          FieldNamed(report_headers[i], SrcResult(j), SrcDoc(j),
                                     SrcPackage(j), SrcVuln(j))

\* C10: every row has 26 fields and its i-th field is the value of the field
\* the i-th header column names.
C10_RowMatchesHeader ==
    \A j \in 1..Len(report_data) :
        /\ Len(report_data[j]) = 26
        /\ \A i \in 1..Len(report_headers) :
              report_data[j][i] =
                  FieldNamed(report_headers[i], SrcResult(j), SrcDoc(j),
                             SrcPackage(j), SrcVuln(j))

====
